---------------------------- MODULE Spec2Model ----------------------------
(***************************************************************************)
(* ecosnail::flat -- Point<T> and Vector<T> (include/ecosnail/flat).       *)
(*                                                                         *)
(* The element type T is instantiated as a signed two's-complement integer *)
(* of IntBits bits (an int of reduced width).  The operators of the two    *)
(* headers are translated one by one; each scenario below is a small       *)
(* program that draws its operands from bounded sets and applies the       *)
(* operators to its registers.                                             *)
(*                                                                         *)
(* Signed overflow, division by zero and the conversion of a NaN to T are  *)
(* undefined in C++.  Where an operation is undefined the scenario either  *)
(* traps (pc = "trapped": -ftrapv, sanitizers, SIGFPE) or goes on with the *)
(* value two's-complement hardware delivers.                               *)
(***************************************************************************)
EXTENDS Integers, Sequences, FiniteSets

VARIABLES
    pc,     \* control state of the running scenario
    kind,   \* "Point" or "Vector": the type the compared operands have
    p, q,   \* Point registers
    a, b, c,\* Vector registers (in the order scenarios: operands of `kind`)
    s,      \* scalar operand
    out,    \* result registers of the scenario (register name -> value)
    divs,   \* the divisors of every element division performed so far
    trace   \* the operators applied so far, each with the Point it was applied to

vars == <<pc, kind, p, q, a, b, c, s, out, divs, trace>>

-----------------------------------------------------------------------------
(* Bounds of the model *)

IntBits == 6        \* width of the element type T
MaxCoord == 2       \* operand coordinates are drawn from -MaxCoord..MaxCoord
MaxOps == 2         \* operators applied in a row in the translation scenario
MaxAddend == 1      \* addend coordinates are drawn from -1..MaxAddend
MaxOrd == 1         \* coordinates of compared operands: -1..MaxOrd
MaxNorm == 5        \* coordinates of a normalized Vector: -MaxNorm..MaxNorm

-----------------------------------------------------------------------------
(* The element type T: a signed integer of IntBits bits *)

IntMin == -(2 ^ (IntBits - 1))
IntMax == (2 ^ (IntBits - 1)) - 1
TValues == IntMin..IntMax

\* The value an IntBits-wide two's-complement register holds for n.
Wrap(n) == ((n - IntMin) % (2 ^ IntBits)) + IntMin

\* Whether the mathematical result n is representable in T (no overflow).
Fits(n) == n \in TValues

Abs(n) == IF n < 0 THEN -n ELSE n

\* l / r on T: truncation toward zero.  r = 0 and IntMin / -1 are undefined;
\* the value is the one the hardware delivers when it does not trap.
TDiv(l, r) ==
    IF r = 0 THEN 0
    ELSE LET m == Abs(l) \div Abs(r)
         IN  Wrap(IF (l < 0) = (r < 0) THEN m ELSE -m)

TDivDefined(l, r) == r # 0 /\ ~(l = IntMin /\ r = -1)

\* Point() / Vector(): x{}, y{}
Zero == [x |-> 0, y |-> 0]

\* Point(T x, T y) / Vector(T x, T y)
Pair(x, y) == [x |-> x, y |-> y]

-----------------------------------------------------------------------------
(* point.hpp: arithmetic operators *)

\* operator+(Point, Vector)
PointPlusVector(lhs, rhs) ==
    Pair(Wrap(lhs.x + rhs.x), Wrap(lhs.y + rhs.y))

PointPlusVectorDefined(lhs, rhs) ==
    Fits(lhs.x + rhs.x) /\ Fits(lhs.y + rhs.y)

\* Faulty variant: operator- copied from operator+ with the sign left as +.
PointMinusVector_Plus(lhs, rhs) ==
    Pair(Wrap(lhs.x + rhs.x), Wrap(lhs.y + rhs.y))

\* operator-(Point, Vector)
PointMinusVector(lhs, rhs) ==
    Pair(Wrap(lhs.x - rhs.x), Wrap(lhs.y - rhs.y))

PointMinusVectorDefined(lhs, rhs) ==
    Fits(lhs.x - rhs.x) /\ Fits(lhs.y - rhs.y)

\* Faulty variant: the operands subtracted the other way round.
PointMinusPoint_Reversed(lhs, rhs) ==
    Pair(Wrap(rhs.x - lhs.x), Wrap(rhs.y - lhs.y))

\* operator-(Point, Point): the result is a Vector
PointMinusPoint(lhs, rhs) ==
    Pair(Wrap(lhs.x - rhs.x), Wrap(lhs.y - rhs.y))

PointMinusPointDefined(lhs, rhs) ==
    Fits(lhs.x - rhs.x) /\ Fits(lhs.y - rhs.y)

(* point.hpp: relational operators *)

\* operator==(Point, Point)
PointEq(lhs, rhs) == lhs.x = rhs.x /\ lhs.y = rhs.y

\* operator!=(Point, Point)
PointNe(lhs, rhs) == ~PointEq(lhs, rhs)

\* operator<=(Point, Point)
PointLe(lhs, rhs) == lhs.x <= rhs.x /\ lhs.y <= rhs.y

\* operator<(Point, Point)
PointLt(lhs, rhs) == PointLe(lhs, rhs) /\ PointNe(lhs, rhs)

(* point.hpp: the std comparison functors *)

\* operator< of two std::tie(x, y) tuples: lexicographic, written with < only.
TieLess(l, r) == l[1] < r[1] \/ (~(r[1] < l[1]) /\ l[2] < r[2])

\* The result of a call the compiler rejects: there is no value.
IllFormed == [compiles |-> FALSE]

\* std::less<Point<T>>::operator()
PointStdLess(lhs, rhs) == TieLess(<<lhs.x, lhs.y>>, <<rhs.x, rhs.y>>)

\* std::greater<Point<T>>::operator(): `less<Point<T>>(rhs, lhs)()` constructs
\* a less from two Points; less has no such constructor (and no nullary
\* call operator), so every instantiation is rejected.
PointStdGreater(lhs, rhs) == IllFormed

\* std::less_equal<Point<T>>::operator(): `!greater<Point<T>>(lhs, rhs)`
\* constructs a greater from two Points and negates the object: rejected.
PointStdLessEqual(lhs, rhs) == IllFormed

\* std::greater_equal<Point<T>>::operator(): `!less<Point<T>>(lhs, rhs)`
\* constructs a less from two Points and negates the object: rejected.
PointStdGreaterEqual(lhs, rhs) == IllFormed

-----------------------------------------------------------------------------
(* vector.hpp: arithmetic operators *)

\* Faulty variant: the y component adds rhs.x.
VectorPlus_YFromX(lhs, rhs) ==
    Pair(Wrap(lhs.x + rhs.x), Wrap(lhs.y + rhs.x))

\* operator+(Vector, Vector)
VectorPlus(lhs, rhs) ==
    Pair(Wrap(lhs.x + rhs.x), Wrap(lhs.y + rhs.y))

VectorPlusDefined(lhs, rhs) ==
    Fits(lhs.x + rhs.x) /\ Fits(lhs.y + rhs.y)

\* operator*(Vector, scalar)
VectorTimes(vector, scalar) ==
    Pair(Wrap(vector.x * scalar), Wrap(vector.y * scalar))

VectorTimesDefined(vector, scalar) ==
    Fits(vector.x * scalar) /\ Fits(vector.y * scalar)

\* Faulty variant: only the x component is divided.
VectorDiv_XOnly(vector, scalar) ==
    Pair(TDiv(vector.x, scalar), vector.y)

\* operator/(Vector, scalar)
VectorDiv(vector, scalar) ==
    Pair(TDiv(vector.x, scalar), TDiv(vector.y, scalar))

VectorDivDefined(vector, scalar) ==
    TDivDefined(vector.x, scalar) /\ TDivDefined(vector.y, scalar)

(* vector.hpp: relational operators *)

\* operator==(Vector, Vector)
VectorEq(lhs, rhs) == lhs.x = rhs.x /\ lhs.y = rhs.y

\* operator!=(Vector, Vector)
VectorNe(lhs, rhs) == ~VectorEq(lhs, rhs)

\* Faulty variant: || in place of &&.
VectorLe_Or(lhs, rhs) == lhs.x <= rhs.x \/ lhs.y <= rhs.y

\* operator<=(Vector, Vector)
VectorLe(lhs, rhs) == lhs.x <= rhs.x /\ lhs.y <= rhs.y

\* Faulty variant: the `lhs != rhs` conjunct left out.
VectorLt_NoNe(lhs, rhs) == VectorLe(lhs, rhs)

\* operator<(Vector, Vector)
VectorLt(lhs, rhs) == VectorLe(lhs, rhs) /\ VectorNe(lhs, rhs)

(* vector.hpp: the std comparison functors *)

\* Faulty variant: the tuples tie y before x.
VectorStdLess_YFirst(lhs, rhs) == TieLess(<<lhs.y, lhs.x>>, <<rhs.y, rhs.x>>)

\* std::less<Vector<T>>::operator()
VectorStdLess(lhs, rhs) == TieLess(<<lhs.x, lhs.y>>, <<rhs.x, rhs.y>>)

\* std::greater<Vector<T>>::operator(): `less<Vector<T>>(rhs, lhs)()`, rejected
\* like its Point twin.
VectorStdGreater(lhs, rhs) == IllFormed

\* std::less_equal<Vector<T>>::operator(): `!greater<Vector<T>>(lhs, rhs)`
VectorStdLessEqual(lhs, rhs) == IllFormed

\* std::greater_equal<Vector<T>>::operator(): `!less<Vector<T>>(lhs, rhs)`
VectorStdGreaterEqual(lhs, rhs) == IllFormed

(* vector.hpp: geometry functions *)

\* (T) std::sqrt(double(n)) for n >= 0: the square root, truncated.
ISqrt(n) == CHOOSE k \in 0..n : k * k <= n /\ (k + 1) * (k + 1) > n

\* v.x * v.x + v.y * v.y, as the T register holds it.
SumOfSquares(v) == Wrap(Wrap(v.x * v.x) + Wrap(v.y * v.y))

\* Faulty variant: the square root left out.
length_NoSqrt(v) == {SumOfSquares(v)}

\* length(v): the values the call can return.  A sum that overflowed to a
\* negative value makes std::sqrt return NaN, whose conversion to T is
\* undefined: it yields IntMin (x86) or 0 (ARM) when it does not trap.
length(v) ==
    IF SumOfSquares(v) < 0 THEN {IntMin, 0} ELSE {ISqrt(SumOfSquares(v))}

lengthDefined(v) ==
    /\ Fits(v.x * v.x)
    /\ Fits(v.y * v.y)
    /\ Fits(v.x * v.x + v.y * v.y)

\* Faulty variant: no `l == 0` guard.
normalized_NoGuard(v) ==
    {[l |-> l, divided_by |-> {l}, value |-> VectorDiv(v, l)] : l \in length(v)}

\* normalized(v): the runs the call can take, each with the length l it
\* computed, the divisors it divided by and the Vector it returned.
normalized(v) ==
    {IF l = 0
     THEN [l |-> l, divided_by |-> {}, value |-> Zero]
     ELSE [l |-> l, divided_by |-> {l}, value |-> VectorDiv(v, l)]
     : l \in length(v)}

-----------------------------------------------------------------------------
(* Operand sets *)

Coords == (-MaxCoord..MaxCoord) \cup {IntMin, IntMax}
Pairs == {Pair(x, y) : x \in Coords, y \in Coords}

\* The result registers: a finite map from register names to values.
NoResults == [k \in {} |-> Zero]
Put(m, k, val) == [n \in DOMAIN m \cup {k} |-> IF n = k THEN val ELSE m[n]]
Has(k) == k \in DOMAIN out

\* Whether an undefined operation traps: only an undefined one can.
Traps(defined) == IF defined THEN {FALSE} ELSE BOOLEAN

-----------------------------------------------------------------------------
(* Scenario: translating a Point by a Vector, forth and back (point.hpp) *)

InitTranslate ==
    /\ pc = "run"
    /\ kind = "Point"
    /\ p \in Pairs
    /\ a \in Pairs
    /\ q = Zero /\ b = Zero /\ c = Zero /\ s = 0
    /\ out = NoResults
    /\ divs = {}
    /\ trace = <<>>

\* p = p + a
AddVector ==
    /\ pc = "run"
    /\ Len(trace) < MaxOps
    /\ \E t \in Traps(PointPlusVectorDefined(p, a)) :
          IF t
          THEN pc' = "trapped" /\ UNCHANGED <<p, trace>>
          ELSE /\ p' = PointPlusVector(p, a)
               /\ trace' = Append(trace, [op |-> "+", at |-> p])
               /\ pc' = pc
    /\ UNCHANGED <<kind, q, a, b, c, s, out, divs>>

\* p = p - a
SubVector ==
    /\ pc = "run"
    /\ Len(trace) < MaxOps
    /\ \E t \in Traps(PointMinusVectorDefined(p, a)) :
          IF t
          THEN pc' = "trapped" /\ UNCHANGED <<p, trace>>
          ELSE /\ p' = PointMinusVector(p, a)
               /\ trace' = Append(trace, [op |-> "-", at |-> p])
               /\ pc' = pc
    /\ UNCHANGED <<kind, q, a, b, c, s, out, divs>>

NextTranslate == AddVector \/ SubVector

SpecTranslate == InitTranslate /\ [][NextTranslate]_vars

\* The Point the i-th applied operator produced.
After(i) == IF i = Len(trace) THEN p ELSE trace[i + 1].at

-----------------------------------------------------------------------------
(* Scenario: the displacement between two Points (point.hpp) *)

InitDisplace ==
    /\ pc = "start"
    /\ kind = "Point"
    /\ p \in Pairs
    /\ q \in Pairs
    /\ a = Zero /\ b = Zero /\ c = Zero /\ s = 0
    /\ out = NoResults
    /\ divs = {}
    /\ trace = <<>>

\* d = p - q
Displacement ==
    /\ pc = "start"
    /\ \E t \in Traps(PointMinusPointDefined(p, q)) :
          IF t
          THEN pc' = "trapped" /\ UNCHANGED out
          ELSE pc' = "diff" /\ out' = Put(out, "d", PointMinusPoint(p, q))
    /\ UNCHANGED <<kind, p, q, a, b, c, s, divs, trace>>

\* r = q + d
ApplyDisplacement ==
    /\ pc = "diff"
    /\ \E t \in Traps(PointPlusVectorDefined(q, out.d)) :
          IF t
          THEN pc' = "trapped" /\ UNCHANGED out
          ELSE pc' = "done" /\ out' = Put(out, "r", PointPlusVector(q, out.d))
    /\ UNCHANGED <<kind, p, q, a, b, c, s, divs, trace>>

NextDisplace == Displacement \/ ApplyDisplacement

SpecDisplace == InitDisplace /\ [][NextDisplace]_vars

-----------------------------------------------------------------------------
(* Scenario: sums of three Vectors (vector.hpp) *)

Addends == {Pair(x, y) : x, y \in ((-1)..MaxAddend) \cup {IntMin, IntMax}}

InitVectorAdd ==
    /\ pc = "run"
    /\ kind = "Vector"
    /\ a \in Addends /\ b \in Addends /\ c \in Addends
    /\ p = Zero /\ q = Zero /\ s = 0
    /\ out = NoResults
    /\ divs = {}
    /\ trace = <<>>

\* The sums the scenario evaluates.
Sums == {"ab", "ba", "left", "right"}

SumValue(e) ==
    CASE e = "ab" -> VectorPlus(a, b)
      [] e = "ba" -> VectorPlus(b, a)
      [] e = "left" -> VectorPlus(VectorPlus(a, b), c)
      [] e = "right" -> VectorPlus(a, VectorPlus(b, c))

SumDefined(e) ==
    CASE e = "ab" -> VectorPlusDefined(a, b)
      [] e = "ba" -> VectorPlusDefined(b, a)
      [] e = "left" ->
            VectorPlusDefined(a, b) /\ VectorPlusDefined(VectorPlus(a, b), c)
      [] e = "right" ->
            VectorPlusDefined(b, c) /\ VectorPlusDefined(a, VectorPlus(b, c))

\* out[e] = the sum e
EvalSum(e) ==
    /\ pc = "run"
    /\ ~Has(e)
    /\ \E t \in Traps(SumDefined(e)) :
          IF t
          THEN pc' = "trapped" /\ UNCHANGED out
          ELSE pc' = pc /\ out' = Put(out, e, SumValue(e))
    /\ UNCHANGED <<kind, p, q, a, b, c, s, divs, trace>>

NextVectorAdd == \E e \in Sums : EvalSum(e)

SpecVectorAdd == InitVectorAdd /\ [][NextVectorAdd]_vars

-----------------------------------------------------------------------------
(* Scenario: scaling a Vector and dividing it back (vector.hpp) *)

InitScale ==
    /\ pc = "start"
    /\ kind = "Vector"
    /\ a \in Pairs
    /\ s \in Coords
    /\ p = Zero /\ q = Zero /\ b = Zero /\ c = Zero
    /\ out = NoResults
    /\ divs = {}
    /\ trace = <<>>

\* scaled = a * s
Scale ==
    /\ pc = "start"
    /\ \E t \in Traps(VectorTimesDefined(a, s)) :
          IF t
          THEN pc' = "trapped" /\ UNCHANGED out
          ELSE pc' = "scaled" /\ out' = Put(out, "scaled", VectorTimes(a, s))
    /\ UNCHANGED <<kind, p, q, a, b, c, s, divs, trace>>

\* back = scaled / s
Unscale ==
    /\ pc = "scaled"
    /\ \E t \in Traps(VectorDivDefined(out.scaled, s)) :
          IF t
          THEN pc' = "trapped" /\ UNCHANGED <<out, divs>>
          ELSE /\ pc' = "done"
               /\ out' = Put(out, "back", VectorDiv(out.scaled, s))
               /\ divs' = divs \cup {s}
    /\ UNCHANGED <<kind, p, q, a, b, c, s, trace>>

NextScale == Scale \/ Unscale

SpecScale == InitScale /\ [][NextScale]_vars

\* C8 as stated: for every Vector v and scalar s # 0, (v * s) / s == v.
C8_Original ==
    pc = "done" /\ s # 0 => VectorEq(out.back, a)

\* C8 as amended: (v * s) / s == v for every scalar s # 0 and every Vector v
\* whose products v.x * s and v.y * s the element type can hold.
C8_ExactWithoutOverflow ==
    pc = "done" /\ s # 0 /\ Fits(a.x * s) /\ Fits(a.y * s)
        => VectorEq(out.back, a)

\* A Vector scaled by a negative scalar without overflow, and divided back.
C8_Witness ==
    /\ pc = "done"
    /\ a = Pair(2, -1) /\ s = -2
    /\ out.scaled = Pair(-4, 2)
    /\ out.back = Pair(2, -1)

-----------------------------------------------------------------------------
(* Scenario: normalizing a Vector and measuring the result (vector.hpp) *)

NormCoords == (-MaxNorm..MaxNorm) \cup {IntMin, IntMax}

InitNormalize ==
    /\ pc = "start"
    /\ kind = "Vector"
    /\ a \in {Pair(x, y) : x, y \in NormCoords}
    /\ p = Zero /\ q = Zero /\ b = Zero /\ c = Zero /\ s = 0
    /\ out = NoResults
    /\ divs = {}
    /\ trace = <<>>

\* n = normalized(a)
Normalize ==
    /\ pc = "start"
    /\ \E run \in normalized(a) :
       \E t \in Traps(/\ lengthDefined(a)
                      /\ \A d \in run.divided_by : VectorDivDefined(a, d)) :
          IF t
          THEN pc' = "trapped" /\ UNCHANGED <<out, divs>>
          ELSE /\ pc' = "normalized"
               /\ out' = Put(Put(out, "l", run.l), "n", run.value)
               /\ divs' = divs \cup run.divided_by
    /\ UNCHANGED <<kind, p, q, a, b, c, s, trace>>

\* len = length(n)
Measure ==
    /\ pc = "normalized"
    /\ \E t \in Traps(lengthDefined(out.n)) :
          IF t
          THEN pc' = "trapped" /\ UNCHANGED out
          ELSE \E len \in length(out.n) :
                  /\ pc' = "measured"
                  /\ out' = Put(out, "len", len)
    /\ UNCHANGED <<kind, p, q, a, b, c, s, divs, trace>>

NextNormalize == Normalize \/ Measure

SpecNormalize == InitNormalize /\ [][NextNormalize]_vars

\* C6: normalized(v) is v / length(v) unless length(v) == 0, when it is the
\* zero Vector; normalized((0,0)) is (0,0); and no division by zero is ever
\* performed.
C6_ZeroGuard ==
    Has("n") =>
        /\ 0 \notin divs
        /\ out.l = 0 => out.n = Zero
        /\ out.l # 0 => out.n = Pair(TDiv(a.x, out.l), TDiv(a.y, out.l))
        /\ a = Zero => out.l = 0 /\ out.n = Zero

\* normalized((0,0)) returned (0,0) without dividing.
C6_Witness ==
    /\ pc = "normalized"
    /\ a = Zero
    /\ out.l = 0
    /\ out.n = Zero
    /\ divs = {}

\* The truncated length of v, when x*x + y*y does not overflow.
TruncLength(v) == ISqrt(v.x * v.x + v.y * v.y)

Max(m, n) == IF m >= n THEN m ELSE n

\* C7 as stated: length(normalized(v)) is 1 for every Vector v # (0,0)
\* (looking only at the calls whose arithmetic is defined).
C7_Original ==
    pc = "measured" /\ a # Zero /\ lengthDefined(a) => out.len = 1

\* C7 as amended, for an integral element type and a Vector v # (0,0) whose
\* x*x + y*y the type can hold: length(normalized(v)) is 0 or 1, and it is 1
\* exactly when the truncated length of v equals max(|x|, |y|).
C7_UnitOrZero ==
    pc = "measured" /\ a # Zero /\ lengthDefined(a) =>
        /\ out.len \in {0, 1}
        /\ out.len = 1 <=> TruncLength(a) = Max(Abs(a.x), Abs(a.y))

\* A Vector whose truncated length equals its larger component: length 1.
C7_Witness ==
    /\ pc = "measured"
    /\ a = Pair(-2, 2)
    /\ out.l = 2
    /\ out.n = Pair(-1, 1)
    /\ out.len = 1

-----------------------------------------------------------------------------
(* Scenario: comparing three operands of one type (point.hpp, vector.hpp) *)

OrdPairs == {Pair(x, y) : x, y \in (-1)..MaxOrd}

\* The collection of the sorting example, and the incomparable pair of the
\* dominance example with an upper bound of both.
ExampleTriple == <<Pair(2, 1), Pair(1, 5), Pair(1, 2)>>
IncomparablePair == <<Pair(1, 2), Pair(2, 1), Pair(2, 2)>>

InitCompare ==
    /\ pc = "run"
    /\ kind \in {"Point", "Vector"}
    /\ \E t \in (OrdPairs \X OrdPairs \X OrdPairs)
                  \cup {ExampleTriple, IncomparablePair} :
          a = t[1] /\ b = t[2] /\ c = t[3]
    /\ p = Zero /\ q = Zero /\ s = 0
    /\ out = NoResults
    /\ divs = {}
    /\ trace = <<>>

Idx == 1..3
Operand(i) == CASE i = 1 -> a [] i = 2 -> b [] i = 3 -> c

\* The relations the scenarios evaluate, on operands of type `kind`.
Relation(name, lhs, rhs) ==
    CASE name = "le" ->
            IF kind = "Point" THEN PointLe(lhs, rhs) ELSE VectorLe(lhs, rhs)
      [] name = "lt" ->
            IF kind = "Point" THEN PointLt(lhs, rhs) ELSE VectorLt(lhs, rhs)
      [] name = "less" ->
            IF kind = "Point"
            THEN PointStdLess(lhs, rhs) ELSE VectorStdLess(lhs, rhs)
      [] name = "greater" ->
            IF kind = "Point"
            THEN PointStdGreater(lhs, rhs) ELSE VectorStdGreater(lhs, rhs)
      [] name = "less_equal" ->
            IF kind = "Point"
            THEN PointStdLessEqual(lhs, rhs) ELSE VectorStdLessEqual(lhs, rhs)
      [] name = "greater_equal" ->
            IF kind = "Point"
            THEN PointStdGreaterEqual(lhs, rhs)
            ELSE VectorStdGreaterEqual(lhs, rhs)

\* out[name][i, j] = the relation `name` called on operands i and j
Compare(name) ==
    /\ pc = "run"
    /\ ~Has(name)
    /\ out' = Put(out, name,
                  [i \in Idx, j \in Idx |-> Relation(name, Operand(i), Operand(j))])
    /\ UNCHANGED <<pc, kind, p, q, a, b, c, s, divs, trace>>

\* The dominance operators next to std::less.
NextDominance == \E name \in {"le", "lt", "less"} : Compare(name)

SpecDominance == InitCompare /\ [][NextDominance]_vars

\* The four std functors.
NextStdOrder ==
    \E name \in {"less", "greater", "less_equal", "greater_equal"} :
        Compare(name)

SpecStdOrder == InitCompare /\ [][NextStdOrder]_vars

\* C4: operator<= is reflexive and transitive, and not total: (1,2) and
\* (2,1) are not comparable either way.
C4_DominancePreorder ==
    Has("le") =>
        /\ \A i \in Idx : out.le[i, i]
        /\ \A i, j, k \in Idx : out.le[i, j] /\ out.le[j, k] => out.le[i, k]
        /\ a = Pair(1, 2) /\ b = Pair(2, 1) => ~out.le[1, 2] /\ ~out.le[2, 1]

\* operator<= was called on the incomparable pair, and on a chain a <= b <= c
\* of three different Vectors.
C4_Witness ==
    /\ Has("le")
    /\ kind = "Vector"
    /\ a = Pair(1, 2) /\ b = Pair(2, 1) /\ c = Pair(2, 2)
    /\ ~out.le[1, 2] /\ ~out.le[2, 1]
    /\ out.le[1, 3] /\ out.le[2, 3]

\* C10: a < b under operator< implies std::less(a, b) and not
\* std::less(b, a); the converse fails for a = (1,2), b = (2,1).
C10_LinearExtension ==
    Has("lt") /\ Has("less") =>
        /\ \A i, j \in Idx :
              out.lt[i, j] => out.less[i, j] /\ ~out.less[j, i]
        /\ a = Pair(1, 2) /\ b = Pair(2, 1) => out.less[1, 2] /\ ~out.lt[1, 2]

\* Both relations were evaluated where they agree (a < c) and where they
\* differ (a, b).
C10_Witness ==
    /\ Has("lt") /\ Has("less")
    /\ kind = "Vector"
    /\ a = Pair(1, 2) /\ b = Pair(2, 1) /\ c = Pair(2, 2)
    /\ out.lt[1, 3] /\ out.less[1, 3]
    /\ out.less[1, 2] /\ ~out.lt[1, 2]

\* The orders in which operands 1..3 can be arranged.
Arrangements == {f \in [Idx -> Idx] : \A i, j \in Idx : i # j => f[i] # f[j]}

\* An arrangement a sort by `less` can return: no element is less than the
\* one before it.
Sorted(less, f) == \A k \in 1..2 : ~less[f[k + 1], f[k]]

Arranged(f) == [k \in Idx |-> Operand(f[k])]

\* C5: std::less compares x first, then y; it is irreflexive and transitive
\* and orders any two different operands exactly one way; so all sorted
\* arrangements of a collection are the same sequence, and the example
\* collection sorts to (1,2), (1,5), (2,1).
C5_StrictTotalOrder ==
    Has("less") =>
        /\ \A i, j \in Idx :
              out.less[i, j] <=>
                 \/ Operand(i).x < Operand(j).x
                 \/ Operand(i).x = Operand(j).x /\ Operand(i).y < Operand(j).y
        /\ \A i \in Idx : ~out.less[i, i]
        /\ \A i, j, k \in Idx :
              out.less[i, j] /\ out.less[j, k] => out.less[i, k]
        /\ \A i, j \in Idx :
              Operand(i) # Operand(j) => (out.less[i, j] <=> ~out.less[j, i])
        /\ \E f \in Arrangements : Sorted(out.less, f)
        /\ \A f, g \in Arrangements :
              Sorted(out.less, f) /\ Sorted(out.less, g)
                 => Arranged(f) = Arranged(g)
        /\ <<a, b, c>> = ExampleTriple =>
              \A f \in Arrangements :
                 Sorted(out.less, f)
                    => Arranged(f) = <<Pair(1, 2), Pair(1, 5), Pair(2, 1)>>

\* std::less was evaluated on the example collection of Points.
C5_Witness ==
    /\ Has("less")
    /\ kind = "Point"
    /\ <<a, b, c>> = ExampleTriple
    /\ out.less[3, 2] /\ out.less[2, 1] /\ out.less[3, 1]

\* C9 as stated: greater(a, b) iff less(b, a); less_equal(a, b) iff not
\* greater(a, b); greater_equal(a, b) iff not less(a, b).
C9_DerivedFunctors ==
    /\ Has("greater") /\ Has("less") =>
          \A i, j \in Idx :
             /\ out.greater[i, j].compiles
             /\ out.greater[i, j].value <=> out.less[j, i]
    /\ Has("less_equal") /\ Has("less") =>
          \A i, j \in Idx :
             /\ out.less_equal[i, j].compiles
             /\ out.less_equal[i, j].value <=> ~out.less[j, i]
    /\ Has("greater_equal") /\ Has("less") =>
          \A i, j \in Idx :
             /\ out.greater_equal[i, j].compiles
             /\ out.greater_equal[i, j].value <=> ~out.less[i, j]

=============================================================================
